---- MODULE Spec2Model ----
(***************************************************************************)
(* Model of redditdownloader/processing/post_processing.py:                *)
(* the Deduplicator worker process (run, _dedupe, _find_matching_files,    *)
(* _check_hash_match, _choose_best_file, _upgrade_file, _prune) and the    *)
(* FileHasher helpers hamming_distance and _dhash, over a record store of  *)
(* File, URL and Hash rows and a file system of stored objects.            *)
(*   Spec       the worker, the stop signal and the downloads              *)
(*   FairSpec   the worker scheduled fairly                                *)
(*   WriterSpec the worker next to the other holder of db_lock             *)
(*   HashSpec   FileHasher._dhash on its own                               *)
(***************************************************************************)
EXTENDS Integers, Sequences, FiniteSets, TLC

\* ---------------------------------------------------------------- bounds
MaxFiles == 3
MaxUrls == 4
MaxSize == 2

FileIds == 1..MaxFiles
UrlIds == 1..MaxUrls

\* ------------------------------------------------------ program constants
\* _dhash(hash_size=8) gives 8*8/4 hexadecimal digits.
DhashLen == 16
\* _dhash(image, hash_size=8)
HashSize == 8
\* hashlib.sha1().hexdigest() gives 40 hexadecimal digits.
ShaLen == 40
\* _check_hash_match: distance >= 4 is no match.
Threshold == 4
\* hamming_distance: the value returned for strings of unequal length.
Sentinel == 9999
\* Hash.split_hash: width of one partition.
PartWidth == 4

\* A missing Hash row (File.hash == None); fingerprints are non-empty
\* sequences of hexadecimal digits.
None == <<>>

\* The fingerprints the stored objects of the model hash to.
\* DhashA, DhashB: perceptual hashes at distance 3 (a match).
\* DhashC: at distance 4 from DhashA, sharing three partitions with it.
\* ShaA: a cryptographic hash whose first 16 digits are DhashA.
DhashA == [i \in 1..DhashLen |-> 0]
DhashB == [i \in 1..DhashLen |-> IF i \in {1, 5, 9} THEN 1 ELSE 0]
DhashC == [i \in 1..DhashLen |-> IF i \in 1..4 THEN 1 ELSE 0]
ShaA == [i \in 1..ShaLen |-> 0]
Fingerprints == {DhashA, DhashB, DhashC, ShaA}

VARIABLES
    files,        \* session view: ids of the File rows
    hash,         \* session view: File.hash.full_hash, None without a Hash row
    urlFile,      \* session view: URL.file_id of every URL row
    db,           \* the committed store: [files, hash, urlFile]
    downloaded,   \* File.downloaded
    album,        \* URL.album_id is not null
    processed,    \* URL.processed
    exists,       \* the stored object of a File's path is a file
    size,         \* size of the stored object of a File's path
    content,      \* what get_best_hash returns for the stored object
    stop,         \* _stop_event.is_set()
    lock,         \* holder of db_lock: "free", "worker", "other"
    pc,           \* position of the worker in run / _dedupe / _prune
    final,        \* the pass is the one of line 41
    unfinished,   \* _dedupe's list
    idx,          \* position in unfinished (1-based)
    newHash,      \* new_hash of the current file
    matches,      \* matches of the current file
    best,         \* survivor chosen by _choose_best_file (0: none)
    others,       \* losers chosen by _choose_best_file
    k,            \* position in others (1-based)
    status,       \* progress status text
    running,      \* progress running flag
    error,        \* progress error (TRUE once set_error was called)
    closed,       \* sql.close() was called
    \* history, not read by the program
    hashLog,      \* one record per fingerprint assignment
    stopPc,       \* the worker's position when the stop signal was raised
    stopEligible, \* the files eligible for fingerprinting at that moment
    passesAfterStop, \* passes started with the stop signal raised
    finalPasses,  \* passes started from line 41
    passNo,       \* 0 before the first pass, 1 in it, 2 from the second on
    start,        \* the store and the file system at the start of run
    deletedObjs,  \* the Files whose stored object _upgrade_file deleted
    \* FileHasher._dhash
    image,        \* the resized greyscale image: rows of pixel values
    difference,   \* the comparison booleans (line 181)
    hex_string    \* the hexadecimal digits (line 189)

storeVars == <<files, hash, urlFile, db>>
fsVars == <<exists, size, content>>
rowVars == <<downloaded, album, processed>>
passVars == <<final, unfinished, idx, newHash, matches, best, others, k>>
progVars == <<status, running, error, closed>>
histVars == <<hashLog, stopPc, stopEligible, passesAfterStop, finalPasses,
              passNo, start, deletedObjs>>
hasherVars == <<image, difference, hex_string>>
vars == <<storeVars, fsVars, rowVars, stop, lock, pc, passVars, progVars,
          histVars, hasherVars>>

\* ---------------------------------------------------------------- helpers
Min(S) == CHOOSE x \in S : \A y \in S : x <= y

RECURSIVE SortedSeq(_)
\* The ids of S in the order the store returns rows (ascending id).
SortedSeq(S) ==
    IF S = {} THEN <<>> ELSE <<Min(S)>> \o SortedSeq(S \ {Min(S)})

Range(s) == {s[i] : i \in 1..Len(s)}

\* File.urls
Urls(f) == {u \in UrlIds : urlFile[u] = f}

\* any(u.album_id for u in f.urls)
IsAlbum(f) == \E u \in Urls(f) : album[u]

\* SanitizedRelFile(...).size() of line 114; a missing object counts 0 bytes
\* (a size() that raises instead is a fault of RunExcept at "assign").
SizeOf(f) == IF exists[f] THEN size[f] ELSE 0

\* Lines 181-186: one boolean per row and column, row by row: the pixel is
\* brighter than its right neighbour.
Difference(img) ==
    [i \in 1..(HashSize * HashSize) |->
        LET row == (i - 1) \div HashSize
            col == (i - 1) % HashSize
        IN  img[row + 1][col + 1] > img[row + 1][col + 2]]

\* hex(n)[2:]: the hexadecimal digits of n without leading zeros.
RECURSIVE Hex(_)
Hex(n) == IF n < 16 THEN <<n>> ELSE Hex(n \div 16) \o <<n % 16>>

\* str.rjust(2, '0')
Rjust(str) == IF Len(str) < 2 THEN <<0>> \o str ELSE str

\* Lines 190-195 with the highest bit first: 2**(7 - index % 8).
RECURSIVE DhashLoopMsb(_, _, _, _)
DhashLoopMsb(diff, index, decimal_value, hex) ==
    IF index = Len(diff)
    THEN hex
    ELSE LET value == diff[index + 1]
             dv == IF value THEN decimal_value + 2^(7 - (index % 8))
                   ELSE decimal_value
         IN  IF (index % 8) = 7
             THEN DhashLoopMsb(diff, index + 1, 0, hex \o Rjust(Hex(dv)))
             ELSE DhashLoopMsb(diff, index + 1, dv, hex)

\* Lines 190-195: the loop over enumerate(difference), from position index
\* with the decimal_value and the hex_string built so far.
RECURSIVE DhashLoop(_, _, _, _)
DhashLoop(diff, index, decimal_value, hex) ==
    IF index = Len(diff)
    THEN hex
    ELSE LET value == diff[index + 1]
             dv == IF value THEN decimal_value + 2^(index % 8)
                   ELSE decimal_value
         IN  IF (index % 8) = 7
             THEN DhashLoop(diff, index + 1, 0, hex \o Rjust(Hex(dv)))
             ELSE DhashLoop(diff, index + 1, dv, hex)

\* ------------------------------------------------------------- FileHasher
\* hamming_distance without its length test: zip stops at the shorter string.
HammingDistanceZip(s1, s2) ==
    LET n == IF Len(s1) < Len(s2) THEN Len(s1) ELSE Len(s2)
    IN  Cardinality({i \in 1..n : s1[i] # s2[i]})

HammingDistance(s1, s2) ==
    IF Len(s1) # Len(s2)
    THEN Sentinel
    ELSE Cardinality({i \in 1..Len(s1) : s1[i] # s2[i]})

\* Hash.split_hash: the four partitions p1..p4
SplitHash(h) ==
    [p \in 1..4 |-> SubSeq(h, (p - 1) * PartWidth + 1, p * PartWidth)]

\* ----------------------------------------------------------- Match Finder
\* _check_hash_match without the album test of line 105.
CheckHashMatchNoAlbum(f, search_hash) ==
    IF hash[f] = None \/ \E u \in Urls(f) : ~processed[u]
    THEN FALSE
    ELSE IF HammingDistance(search_hash, hash[f]) >= Threshold
         THEN FALSE
         ELSE TRUE

\* Lines 101-109.
CheckHashMatch(f, search_hash) ==
    IF hash[f] = None \/ \E u \in Urls(f) : album[u] \/ ~processed[u]
    THEN FALSE
    ELSE IF HammingDistance(search_hash, hash[f]) >= Threshold
         THEN FALSE
         ELSE TRUE

\* The rows the query of lines 87-96 returns.
AllHashes(search_hash) ==
    LET sp == SplitHash(search_hash)
    IN  {f \in files :
            /\ hash[f] # None
            /\ \/ hash[f] = search_hash
               \/ \E p \in 1..4 : SplitHash(hash[f])[p] = sp[p]}

FindMatchingFiles(search_hash) ==
    SortedSeq({f \in AllHashes(search_hash) : CheckHashMatch(f, search_hash)})

\* ------------------------------------------------------ Resolution Policy
\* An insertion that puts x in front of the elements of its size: a sort
\* that is not stable.
InsertDescUnstable(x, s) ==
    LET n == Cardinality({i \in 1..Len(s) : SizeOf(s[i]) > SizeOf(x)})
    IN  SubSeq(s, 1, n) \o <<x>> \o SubSeq(s, n + 1, Len(s))

\* s is sorted by descending size; x goes behind every element that is not
\* smaller (sorted(..., reverse=True) is stable).
InsertDesc(x, s) ==
    LET n == Cardinality({i \in 1..Len(s) : SizeOf(s[i]) >= SizeOf(x)})
    IN  SubSeq(s, 1, n) \o <<x>> \o SubSeq(s, n + 1, Len(s))

RECURSIVE SortedDesc(_)
SortedDesc(fs) ==
    IF fs = <<>> THEN <<>>
    ELSE InsertDesc(fs[Len(fs)], SortedDesc(SubSeq(fs, 1, Len(fs) - 1)))

\* <<files[0], files[1:]>>
ChooseBestFile(fs) ==
    LET sorted == SortedDesc(fs)
    IN  <<Head(sorted), Tail(sorted)>>

\* ----------------------------------------------------------------- status
Status(text, left) == [text |-> text, left |-> left]

\* The store as the session sees it, for a commit.
SessionStore == [files |-> files, hash |-> hash, urlFile |-> urlFile]

\* A File the sweep may fingerprint: lines 55-59 and 68.
Eligible(f) ==
    /\ f \in files
    /\ downloaded[f]
    /\ hash[f] = None
    /\ ~IsAlbum(f)
    /\ exists[f]

\* Line 130 without its negation: the File rows that have URL rows.
OrphansWithUrls == {f \in files : Urls(f) # {}}

\* File rows without URL rows: ~File.urls.any()
Orphans == {f \in files : Urls(f) = {}}

\* ------------------------------------------------------ Deduplicator.run
\* Lines 32-35: open the session, report the start.
RunStart ==
    /\ pc = "start"
    /\ status' = Status("Starting up...", 0)
    /\ running' = TRUE
    /\ pc' = "loop"
    /\ UNCHANGED <<storeVars, fsVars, rowVars, stop, lock, passVars, error,
                   closed, histVars, hasherVars>>

\* A loop that ends at the stop signal without the final pass of line 41.
RunLoopNoFinal ==
    /\ pc = "loop"
    /\ final' = stop
    /\ pc' = IF stop THEN "finish" ELSE "dedupe"
    /\ UNCHANGED <<storeVars, fsVars, rowVars, stop, lock, unfinished, idx,
                   newHash, matches, best, others, k, progVars, histVars,
                   hasherVars>>

\* Line 37 and line 41: the loop condition; a raised stop signal leads to
\* the final pass.
RunLoop ==
    /\ pc = "loop"
    /\ final' = stop
    /\ pc' = "dedupe"
    /\ UNCHANGED <<storeVars, fsVars, rowVars, stop, lock, unfinished, idx,
                   newHash, matches, best, others, k, progVars, histVars,
                   hasherVars>>

\* Where _dedupe returns to: line 39 in the loop, line 42 after the final
\* pass.
AfterDedupe == IF final THEN "finish" ELSE "ready"

\* Lines 39: the status between two passes.
RunReady ==
    /\ pc = "ready"
    /\ status' = Status("Ready for new files...", 0)
    /\ pc' = "wait"
    /\ UNCHANGED <<storeVars, fsVars, rowVars, stop, lock, passVars, running,
                   error, closed, histVars, hasherVars>>

\* Line 40 as a wait that only a new download ends: it does not return once
\* the stop signal is raised.
RunWaitForFiles ==
    /\ pc = "wait"
    /\ ~stop
    /\ pc' = "loop"
    /\ UNCHANGED <<storeVars, fsVars, rowVars, stop, lock, passVars, progVars,
                   histVars, hasherVars>>

\* Line 40: _stop_event.wait(2) returns on the signal or on the timeout.
RunWait ==
    /\ pc = "wait"
    /\ pc' = "loop"
    /\ UNCHANGED <<storeVars, fsVars, rowVars, stop, lock, passVars, progVars,
                   histVars, hasherVars>>

\* Lines 42 and 49: the normal end.
RunFinish ==
    /\ pc = "finish"
    /\ status' = Status("Finished.", 0)
    /\ running' = FALSE
    /\ closed' = TRUE
    /\ pc' = "done"
    /\ UNCHANGED <<storeVars, fsVars, rowVars, stop, lock, passVars, error,
                   histVars, hasherVars>>

\* The statements that reach the store or the file system and may raise.
FaultPoints == {"start", "dedupe", "file", "assign", "upgrade", "commit", "pruning"}

\* Lines 43-49 for a `with` block that does not release on an exception: the
\* lock stays with the worker.
RunExceptKeepsLock ==
    /\ pc \in FaultPoints
    /\ error' = TRUE
    /\ running' = FALSE
    /\ closed' = TRUE
    /\ files' = db.files
    /\ hash' = db.hash
    /\ urlFile' = db.urlFile
    /\ pc' = "done"
    /\ UNCHANGED <<db, fsVars, rowVars, stop, lock, passVars, status, histVars,
                   hasherVars>>

\* A handler that records the error and goes back to the loop.
RunExceptRetry ==
    /\ pc \in FaultPoints
    /\ error' = TRUE
    /\ lock' = IF lock = "worker" THEN "free" ELSE lock
    /\ files' = db.files
    /\ hash' = db.hash
    /\ urlFile' = db.urlFile
    /\ pc' = "loop"
    /\ UNCHANGED <<db, fsVars, rowVars, stop, passVars, status, running,
                   closed, histVars, hasherVars>>

\* Lines 43-49: an exception leaves every "with self._lock" block, is
\* recorded, and the session is closed with its uncommitted changes.
RunExcept ==
    /\ pc \in FaultPoints
    /\ error' = TRUE
    /\ running' = FALSE
    /\ closed' = TRUE
    /\ lock' = IF lock = "worker" THEN "free" ELSE lock
    /\ files' = db.files
    /\ hash' = db.hash
    /\ urlFile' = db.urlFile
    /\ pc' = "done"
    /\ UNCHANGED <<db, fsVars, rowVars, stop, passVars, status, histVars,
                   hasherVars>>

\* --------------------------------------------------- Deduplicator._dedupe
\* The query of lines 52-57 without its filter on File.hash.
UnfinishedAnyHash ==
    SortedSeq({f \in files : downloaded[f] /\ ~IsAlbum(f)})

\* Lines 52-59: the files without hash that are downloaded and in no album.
Unfinished ==
    SortedSeq({f \in files : hash[f] = None /\ downloaded[f] /\ ~IsAlbum(f)})

\* Lines 52-62: the query; an empty list returns at once.
DedupeQuery ==
    /\ pc = "dedupe"
    /\ unfinished' = Unfinished
    /\ idx' = 1
    /\ pc' = IF Unfinished = <<>> THEN AfterDedupe ELSE "file"
    /\ passesAfterStop' = passesAfterStop + (IF stop THEN 1 ELSE 0)
    /\ finalPasses' = finalPasses + (IF final THEN 1 ELSE 0)
    /\ passNo' = IF passNo < 2 THEN passNo + 1 ELSE 2
    /\ UNCHANGED <<storeVars, fsVars, rowVars, stop, lock, final, newHash,
                   matches, best, others, k, progVars, hashLog, stopPc,
                   stopEligible, start, deletedObjs, hasherVars>>

\* The end of one iteration of the loop of line 64; line 83 follows the
\* last one.
NextFile ==
    IF idx = Len(unfinished)
    THEN pc' = "prune" /\ idx' = idx
    ELSE pc' = "file" /\ idx' = idx + 1

\* Lines 65-75 with the Hash row of the file assigned (line 75) before the
\* lookup of line 72, which does not use ignore_id: the file, with its own
\* Hash row, is among the rows the lookup returns.
DedupeFileHashFirst ==
    /\ pc = "file"
    /\ LET f == unfinished[idx] IN
        /\ status' = Status("Deduplicating files...", Len(unfinished) - (idx - 1))
        /\ IF ~exists[f] \/ IsAlbum(f) \/ stop
           THEN /\ NextFile
                /\ UNCHANGED <<newHash, matches, hash>>
           ELSE /\ newHash' = content[f]
                /\ hash' = [hash EXCEPT ![f] = content[f]]
                /\ matches' = SortedSeq(
                        Range(FindMatchingFiles(content[f]))
                        \cup (IF \A u \in Urls(f) : ~album[u] /\ processed[u]
                              THEN {f} ELSE {}))
                /\ pc' = "lock"
                /\ idx' = idx
    /\ UNCHANGED <<files, urlFile, db, fsVars, rowVars, stop, lock, final,
                   unfinished, best, others, k, running, error, closed,
                   histVars, hasherVars>>

\* Lines 65-72 without the is_file test of line 68.
DedupeFileAnyPath ==
    /\ pc = "file"
    /\ LET f == unfinished[idx] IN
        /\ status' = Status("Deduplicating files...", Len(unfinished) - (idx - 1))
        /\ IF IsAlbum(f) \/ stop
           THEN /\ NextFile
                /\ UNCHANGED <<newHash, matches>>
           ELSE /\ newHash' = content[f]
                /\ matches' = FindMatchingFiles(content[f])
                /\ pc' = "lock"
                /\ idx' = idx
    /\ UNCHANGED <<storeVars, fsVars, rowVars, stop, lock, final, unfinished,
                   best, others, k, running, error, closed, histVars,
                   hasherVars>>

\* Lines 65-72: skip the file, or hash it and look its matches up.
DedupeFile ==
    /\ pc = "file"
    /\ LET f == unfinished[idx] IN
        /\ status' = Status("Deduplicating files...", Len(unfinished) - (idx - 1))
        /\ IF ~exists[f] \/ IsAlbum(f) \/ stop
           THEN /\ NextFile
                /\ UNCHANGED <<newHash, matches>>
           ELSE /\ newHash' = content[f]
                /\ matches' = FindMatchingFiles(content[f])
                /\ pc' = "lock"
                /\ idx' = idx
    /\ UNCHANGED <<storeVars, fsVars, rowVars, stop, lock, final, unfinished,
                   best, others, k, running, error, closed, histVars,
                   hasherVars>>

\* Line 74: with self._lock
DedupeLock ==
    /\ pc = "lock"
    /\ lock = "free"
    /\ lock' = "worker"
    /\ pc' = "assign"
    /\ UNCHANGED <<storeVars, fsVars, rowVars, stop, passVars, progVars,
                   histVars, hasherVars>>

\* Lines 75-79 with a commit right after line 75: the Hash row is committed
\* before the merge.
DedupeAssignCommits ==
    /\ pc = "assign"
    /\ LET f == unfinished[idx] IN
        /\ hash' = [hash EXCEPT ![f] = newHash]
        /\ db' = [db EXCEPT !.hash = hash']
        /\ hashLog' = Append(hashLog,
                [file |-> f, had |-> hash[f] # None, downloaded |-> downloaded[f],
                 exists |-> exists[f], album |-> IsAlbum(f)])
        /\ IF Len(matches) > 0
           THEN LET chosen == ChooseBestFile(matches \o <<f>>) IN
                /\ best' = chosen[1]
                /\ others' = chosen[2]
                /\ k' = 1
                /\ pc' = "upgrade"
           ELSE /\ best' = 0
                /\ others' = <<>>
                /\ k' = 1
                /\ pc' = "commit"
    /\ UNCHANGED <<files, urlFile, fsVars, rowVars, stop, lock, final,
                   unfinished, idx, newHash, matches, progVars, stopPc,
                   stopEligible, passesAfterStop, finalPasses, passNo, start,
                   deletedObjs, hasherVars>>

\* Lines 75-79: the Hash row of the file, and the survivor of its matches.
DedupeAssign ==
    /\ pc = "assign"
    /\ LET f == unfinished[idx] IN
        /\ hash' = [hash EXCEPT ![f] = newHash]
        /\ hashLog' = Append(hashLog,
                [file |-> f, had |-> hash[f] # None, downloaded |-> downloaded[f],
                 exists |-> exists[f], album |-> IsAlbum(f)])
        /\ IF Len(matches) > 0
           THEN LET chosen == ChooseBestFile(matches \o <<f>>) IN
                /\ best' = chosen[1]
                /\ others' = chosen[2]
                /\ k' = 1
                /\ pc' = "upgrade"
           ELSE /\ best' = 0
                /\ others' = <<>>
                /\ k' = 1
                /\ pc' = "commit"
    /\ UNCHANGED <<files, urlFile, db, fsVars, rowVars, stop, lock, final,
                   unfinished, idx, newHash, matches, progVars, stopPc,
                   stopEligible, passesAfterStop, finalPasses, passNo, start,
                   deletedObjs, hasherVars>>

\* Lines 119-126 with the two files swapped in the update: the survivor's URL
\* rows go to the loser.
UpgradeFileSwapped ==
    /\ pc = "upgrade"
    /\ LET old_file == others[k] IN
        /\ urlFile' = [u \in UrlIds |->
                          IF urlFile[u] = best THEN old_file ELSE urlFile[u]]
        /\ exists' = [exists EXCEPT ![old_file] = FALSE]
        /\ deletedObjs' = IF exists[old_file]
                          THEN deletedObjs \cup {old_file} ELSE deletedObjs
    /\ k' = k + 1
    /\ pc' = IF k = Len(others) THEN "commit" ELSE "upgrade"
    /\ UNCHANGED <<files, hash, db, size, content, rowVars, stop, lock, final,
                   unfinished, idx, newHash, matches, best, others, progVars,
                   hashLog, stopPc, stopEligible, passesAfterStop, finalPasses,
                   passNo, start, hasherVars>>

\* Lines 119-126 for the loser others[k]: its URL rows go to the survivor,
\* its stored object is deleted.
UpgradeFile ==
    /\ pc = "upgrade"
    /\ LET old_file == others[k] IN
        /\ urlFile' = [u \in UrlIds |->
                          IF urlFile[u] = old_file THEN best ELSE urlFile[u]]
        /\ exists' = [exists EXCEPT ![old_file] = FALSE]
        /\ deletedObjs' = IF exists[old_file]
                          THEN deletedObjs \cup {old_file} ELSE deletedObjs
    /\ k' = k + 1
    /\ pc' = IF k = Len(others) THEN "commit" ELSE "upgrade"
    /\ UNCHANGED <<files, hash, db, size, content, rowVars, stop, lock, final,
                   unfinished, idx, newHash, matches, best, others, progVars,
                   hashLog, stopPc, stopEligible, passesAfterStop, finalPasses,
                   passNo, start, hasherVars>>

\* Line 82, and the end of the with block.
DedupeCommit ==
    /\ pc = "commit"
    /\ db' = SessionStore
    /\ lock' = "free"
    /\ NextFile
    /\ UNCHANGED <<files, hash, urlFile, fsVars, rowVars, stop, final,
                   unfinished, newHash, matches, best, others, k, progVars,
                   histVars, hasherVars>>

\* ---------------------------------------------------- Deduplicator._prune
\* Line 129: with self._lock
PruneLock ==
    /\ pc = "prune"
    /\ lock = "free"
    /\ lock' = "worker"
    /\ pc' = "pruning"
    /\ UNCHANGED <<storeVars, fsVars, rowVars, stop, passVars, progVars,
                   histVars, hasherVars>>

\* Lines 130-131: delete the File rows without URL rows, commit.
Prune ==
    /\ pc = "pruning"
    /\ files' = files \ Orphans
    /\ hash' = [f \in FileIds |-> IF f \in Orphans THEN None ELSE hash[f]]
    /\ db' = [files |-> files', hash |-> hash', urlFile |-> urlFile]
    /\ lock' = "free"
    /\ pc' = AfterDedupe
    /\ UNCHANGED <<urlFile, fsVars, rowVars, stop, passVars, progVars,
                   histVars, hasherVars>>

\* ------------------------------------------------------------ environment
\* The supervisor raises the stop signal.
SetStop ==
    /\ ~stop
    /\ stop' = TRUE
    /\ stopPc' = pc
    /\ stopEligible' = {f \in FileIds : Eligible(f)}
    /\ UNCHANGED <<storeVars, fsVars, rowVars, lock, pc, passVars, progVars,
                   hashLog, passesAfterStop, finalPasses, passNo, start,
                   deletedObjs, hasherVars>>

\* The download pipeline finishes a file: the object is stored and the row
\* is marked, under the shared lock.
Download(f) ==
    /\ ~stop
    /\ lock = "free"
    /\ f \in files
    /\ ~downloaded[f]
    /\ downloaded' = [downloaded EXCEPT ![f] = TRUE]
    /\ exists' = [exists EXCEPT ![f] = TRUE]
    /\ UNCHANGED <<storeVars, size, content, album, processed, stop, lock, pc,
                   passVars, progVars, histVars, hasherVars>>

\* The other process that shares db_lock, the download pipeline, writes the
\* record store inside its own `with lock` block: it takes the lock, ...
WriterLock ==
    /\ lock = "free"
    /\ lock' = "other"
    /\ UNCHANGED <<storeVars, fsVars, rowVars, stop, pc, passVars, progVars,
                   histVars, hasherVars>>

\* ... resolves an unprocessed URL row to the File row f of its target and
\* marks it processed, committing at once, ...
WriterResolve(u, f) ==
    /\ lock = "other"
    /\ ~processed[u]
    /\ f \in db.files
    /\ processed' = [processed EXCEPT ![u] = TRUE]
    /\ urlFile' = [urlFile EXCEPT ![u] = f]
    /\ db' = [db EXCEPT !.urlFile = urlFile']
    /\ UNCHANGED <<files, hash, fsVars, downloaded, album, stop, lock, pc,
                   passVars, progVars, histVars, hasherVars>>

\* ... and releases the lock.
WriterUnlock ==
    /\ lock = "other"
    /\ lock' = "free"
    /\ UNCHANGED <<storeVars, fsVars, rowVars, stop, pc, passVars, progVars,
                   histVars, hasherVars>>

\* ------------------------------------------------------ FileHasher._dhash
\* Lines 181-186: the comparison of adjacent pixels.
DhashCompare ==
    /\ image # <<>>
    /\ difference = <<>>
    /\ difference' = Difference(image)
    /\ UNCHANGED <<storeVars, fsVars, rowVars, stop, lock, pc, passVars,
                   progVars, histVars, image, hex_string>>

\* Lines 188-196: the booleans packed into hexadecimal digits.
DhashPack ==
    /\ difference # <<>>
    /\ hex_string = <<>>
    /\ hex_string' = DhashLoop(difference, 0, 0, <<>>)
    /\ UNCHANGED <<storeVars, fsVars, rowVars, stop, lock, pc, passVars,
                   progVars, histVars, image, difference>>

\* ---------------------------------------------------------- initial states
\* What the download pipeline and earlier runs leave behind for a File:
\*   new      downloaded, stored, not yet fingerprinted
\*   hashed   downloaded, stored, fingerprinted by an earlier run
\*   pending  its download has not finished
\*   missing  marked downloaded, its stored object is gone
Profiles == {"new", "hashed", "pending", "missing"}

BaseProfile == [f \in FileIds |-> "new"]
BaseContent == [f \in FileIds |-> DhashA]
BaseSize == [f \in FileIds |-> 1]
\* URL u belongs to File u, the URLs beyond MaxFiles to the first files.
BaseUrlFile == [u \in UrlIds |-> ((u - 1) % MaxFiles) + 1]
AllFalse == [u \in UrlIds |-> FALSE]
AllTrue == [u \in UrlIds |-> TRUE]

Config(p, c, z, uf, al, pr) ==
    [profile |-> p, content |-> c, size |-> z, urlFile |-> uf, album |-> al,
     processed |-> pr]

\* Files seen or not seen by an earlier run, of every size.
ConfSizes ==
    {Config(p, BaseContent, z, BaseUrlFile, AllFalse, AllTrue) :
        p \in [FileIds -> {"new", "hashed"}], z \in [FileIds -> 1..MaxSize]}

\* At most one File whose content differs from the others'.
ConfContent ==
    {Config(p, c, BaseSize, BaseUrlFile, AllFalse, AllTrue) :
        p \in [FileIds -> {"new", "hashed"}],
        c \in {c \in [FileIds -> Fingerprints] :
                Cardinality({f \in FileIds : c[f] # DhashA}) <= 1}}

\* Every distribution of the URLs over the Files (URL ids in File order),
\* with at most the first or the last URL album-tagged or unprocessed.
ConfUrls ==
    {Config(p, BaseContent, BaseSize, uf, al, pr) :
        p \in {BaseProfile,
               [f \in FileIds |-> IF f = MaxFiles THEN "new" ELSE "hashed"]},
        uf \in {uf \in [UrlIds -> FileIds] :
                 \A u \in UrlIds : u = 1 \/ uf[u - 1] <= uf[u]},
        al \in {AllFalse} \cup {[u \in UrlIds |-> u = v] : v \in {1, MaxUrls}},
        pr \in {AllTrue} \cup {[u \in UrlIds |-> u # v] : v \in {1, MaxUrls}}}

\* Every profile of every File.
ConfLife ==
    {Config(p, BaseContent, BaseSize, BaseUrlFile, AllFalse, AllTrue) :
        p \in [FileIds -> Profiles]}

Configs == ConfSizes \cup ConfContent \cup ConfUrls \cup ConfLife

\* The state after __init__ (lines 15-26), over a store and a file system
\* as configured.
InitOf(cfg) ==
    /\ files = FileIds
    /\ hash = [f \in FileIds |->
                  IF cfg.profile[f] = "hashed" THEN cfg.content[f] ELSE None]
    /\ urlFile = cfg.urlFile
    /\ db = [files |-> files, hash |-> hash, urlFile |-> urlFile]
    /\ downloaded = [f \in FileIds |-> cfg.profile[f] # "pending"]
    /\ album = cfg.album
    /\ processed = cfg.processed
    /\ exists = [f \in FileIds |-> cfg.profile[f] \in {"new", "hashed"}]
    /\ size = cfg.size
    /\ content = cfg.content
    /\ stop = FALSE
    /\ lock = "free"
    /\ pc = "start"
    /\ final = FALSE
    /\ unfinished = <<>>
    /\ idx = 1
    /\ newHash = None
    /\ matches = <<>>
    /\ best = 0
    /\ others = <<>>
    /\ k = 1
    /\ status = Status("Starting up...", 0)
    /\ running = FALSE
    /\ error = FALSE
    /\ closed = FALSE
    /\ hashLog = <<>>
    /\ stopPc = "none"
    /\ stopEligible = {}
    /\ passesAfterStop = 0
    /\ finalPasses = 0
    /\ passNo = 0
    /\ start = [hash |-> hash, urlFile |-> urlFile,
                downloaded |-> downloaded, exists |-> exists]
    /\ deletedObjs = {}

\* No image is being hashed.
NoImage == image = <<>> /\ difference = <<>> /\ hex_string = <<>>

Init == NoImage /\ \E cfg \in Configs : InitOf(cfg)

Next ==
    \/ RunStart
    \/ RunLoop
    \/ RunReady
    \/ RunWait
    \/ RunFinish
    \/ RunExcept
    \/ DedupeQuery
    \/ DedupeFile
    \/ DedupeLock
    \/ DedupeAssign
    \/ UpgradeFile
    \/ DedupeCommit
    \/ PruneLock
    \/ Prune
    \/ SetStop
    \/ \E f \in FileIds : Download(f)

Spec == Init /\ [][Next]_vars

\* The steps of the worker process that end in a normal return; the process
\* is scheduled fairly, a fault (RunExcept) is never forced.
Worker ==
    \/ RunStart
    \/ RunLoop
    \/ RunReady
    \/ RunWait
    \/ RunFinish
    \/ DedupeQuery
    \/ DedupeFile
    \/ DedupeLock
    \/ DedupeAssign
    \/ UpgradeFile
    \/ DedupeCommit
    \/ PruneLock
    \/ Prune

\* The runs checked for termination start from the profiles of ConfLife
\* with at most one File still to be downloaded, a part of the initial
\* states of Spec.
ConfFair ==
    {cfg \in ConfLife :
        Cardinality({f \in FileIds : cfg.profile[f] = "pending"}) <= 1}

InitLife == NoImage /\ \E cfg \in ConfFair : InitOf(cfg)

FairSpec == InitLife /\ [][Next]_vars /\ WF_vars(Worker)

\* The worker next to the other writer of the record store.  The runs start
\* from the stores of ConfUrls, which hold the unprocessed URL rows the
\* writer resolves, and from those of ConfFair.
InitWriter == NoImage /\ \E cfg \in ConfUrls \cup ConfFair : InitOf(cfg)

WriterNext ==
    \/ Next
    \/ WriterLock
    \/ \E u \in UrlIds, f \in FileIds : WriterResolve(u, f)
    \/ WriterUnlock

WriterSpec == InitWriter /\ [][WriterNext]_vars

\* The images hashed: one row of pixels for each pattern of HashSize
\* booleans (a pixel is one darker than its left neighbour where the boolean
\* is TRUE, equal to it where it is FALSE), in one row of the image, the
\* other rows all equal or all falling.
BytePatterns == [1..HashSize -> BOOLEAN]

RECURSIVE RowOf(_, _)
RowOf(bits, n) ==
    IF n = 0
    THEN <<HashSize>>
    ELSE LET left == RowOf(bits, n - 1)
         IN  Append(left, IF bits[n] THEN left[n] - 1 ELSE left[n])

Images ==
    {[r \in 1..HashSize |->
        RowOf(IF r = g THEN b ELSE [c \in 1..HashSize |-> fill], HashSize)] :
        g \in 1..HashSize, b \in BytePatterns, fill \in BOOLEAN}

\* _dhash on its own: an image after the resize of lines 176-179, next to an
\* idle worker.
InitHash ==
    /\ InitOf(Config(BaseProfile, BaseContent, BaseSize, BaseUrlFile,
                     AllFalse, AllTrue))
    /\ image \in Images
    /\ difference = <<>>
    /\ hex_string = <<>>

HashNext == DhashCompare \/ DhashPack

HashSpec == InitHash /\ [][HashNext]_vars

\* ================================================================= claims
\* The files of the merge in progress: matches + [f] (line 78).
MatchSet == Range(matches) \cup {unfinished[idx]}

NormalEnd == pc = "done" /\ ~error

\* C1: a File eligible for fingerprinting when the stop signal is raised has
\* a fingerprint (or was merged away) when the worker terminates normally.
C1_EligibleAtStopIsFingerprinted ==
    NormalEnd =>
        \A f \in stopEligible : f \in db.files => db.hash[f] # None

\* C2 as stated: in a run that ends without an exception exactly one pass
\* starts after the stop signal was raised.
C2_ExactlyOnePassAfterStop ==
    NormalEnd => passesAfterStop = 1

\* C2 as amended: a run that ends without an exception has run the final
\* pass of line 41 exactly once; one pass of the loop also starts after the
\* signal exactly when the signal was raised between the loop condition and
\* the start of the pass it admitted, and no other pass does.
C2_OneFinalPassAtMostTwoAfterStop ==
    NormalEnd =>
        /\ finalPasses = 1
        /\ passesAfterStop = (IF stopPc = "dedupe" THEN 2 ELSE 1)

C2_Witness == NormalEnd /\ passesAfterStop = 2 /\ finalPasses = 1

\* C3: once the worker has terminated normally no File row without URL
\* rows is left (every orphan seen while it ran was deleted).
C3_OrphansDeletedAtEnd ==
    NormalEnd =>
        \A f \in db.files : \E u \in UrlIds : db.urlFile[u] = f

\* C4: the commit of a merge leaves every loser without URL rows and the
\* survivor with exactly the URL rows the files of the match set had before
\* it; the other URL rows keep their File.
C4_MergeKeepsReferences ==
    [][(pc = "commit" /\ pc' # "done" /\ pc' # "commit" /\ best # 0) =>
         /\ best \in MatchSet
         /\ DOMAIN db'.urlFile = DOMAIN db.urlFile
         /\ \A o \in MatchSet \ {best} :
               {u \in UrlIds : db'.urlFile[u] = o} = {}
         /\ {u \in UrlIds : db'.urlFile[u] = best}
               = {u \in UrlIds : db.urlFile[u] \in MatchSet}
         /\ \A u \in UrlIds :
               db.urlFile[u] \notin MatchSet => db'.urlFile[u] = db.urlFile[u]
      ]_vars

C4_Witness ==
    /\ pc \in {"file", "prune"}
    /\ lock = "free"
    /\ Len(others) = 2
    /\ k = 3
    /\ \A o \in Range(others) : {u \in UrlIds : db.urlFile[u] = o} = {}
    /\ Cardinality({u \in UrlIds : db.urlFile[u] = best}) >= 3

C6_FingerprintedOnce ==
    /\ [](/\ \A i \in 1..Len(hashLog) : ~hashLog[i].had
          /\ \A i, j \in 1..Len(hashLog) :
                hashLog[i].file = hashLog[j].file => i = j)
    /\ [][\A f \in db.files :
             (db.hash[f] # None /\ f \in db'.files) => db'.hash[f] = db.hash[f]
         ]_vars

\* A File the worker fingerprinted is left out of the list of a later pass.
C6_Witness ==
    /\ pc = "file"
    /\ Len(hashLog) > 0
    /\ hashLog[1].file \in files
    /\ hashLog[1].file \notin Range(unfinished)

\* C7: at assignment the File is downloaded, has no fingerprint and its
\* stored object exists; a step of the sweep on a File whose stored object
\* is missing, unless a fault ends the run there, goes on to the next File
\* and leaves the File without fingerprint and the error unset; and the query
\* of every pass lists the Files whose stored object is missing.
C7_OnlyStoredFilesFingerprinted ==
    /\ [](\A i \in 1..Len(hashLog) :
             hashLog[i].downloaded /\ ~hashLog[i].had /\ hashLog[i].exists)
    /\ [][(pc = "file" /\ ~exists[unfinished[idx]]
             /\ (pc' # pc \/ idx' # idx) /\ pc' # "done") =>
             /\ pc' \in {"file", "prune"}
             /\ (pc' = "file" => idx' = idx + 1)
             /\ hash' = hash
             /\ db' = db
             /\ ~error'
         ]_vars
    /\ [][(pc = "dedupe" /\ pc' # "dedupe" /\ pc' # "done") =>
             \A f \in files :
                (downloaded[f] /\ hash[f] = None /\ ~IsAlbum(f) /\ ~exists[f])
                   => f \in Range(unfinished')
         ]_vars

\* The first File of a pass after the first one is a File whose stored
\* object is missing.
C7_Witness ==
    /\ pc = "file"
    /\ idx = 1
    /\ status.text = "Ready for new files..."
    /\ ~exists[unfinished[1]]
    /\ hash[unfinished[1]] = None

\* C8: right after the resolution policy ran on matches + [f], the survivor
\* is of maximal size and the first of that size in that order, the losers
\* are all the other files, and they are in descending size order.
C8_SurvivorIsFirstLargest ==
    (pc = "upgrade" /\ k = 1) =>
        LET ms == matches \o <<unfinished[idx]>>
            big == {i \in 1..Len(ms) :
                      \A j \in 1..Len(ms) : SizeOf(ms[j]) <= SizeOf(ms[i])}
        IN  /\ best = ms[Min(big)]
            /\ Len(others) = Len(ms) - 1
            /\ Range(others) = Range(ms) \ {best}
            /\ \A i, j \in 1..Len(others) :
                  i < j => SizeOf(others[i]) >= SizeOf(others[j])

\* Three files, two of them sharing the maximal size.
C8_Witness ==
    /\ pc = "upgrade"
    /\ k = 1
    /\ Len(matches) = 2
    /\ \E o \in Range(others) : SizeOf(o) = SizeOf(best)
    /\ \E o \in Range(others) : SizeOf(o) < SizeOf(best)

\* What C9 asks of a File returned for the query q.
IsTrueMatch(m, q) ==
    /\ m \in files
    /\ hash[m] # None
    /\ \A u \in UrlIds : urlFile[u] = m => (~album[u] /\ processed[u])
    /\ Len(hash[m]) = Len(q)
    /\ Cardinality({i \in 1..Len(q) : hash[m][i] # q[i]}) < 4

\* C9: every File find_matches returns, for every query and for the query
\* of the current File, has a fingerprint of the query's length at distance
\* below 4 and no album-tagged or unprocessed URL.
C9_MatchesAreTrueMatches ==
    /\ \A q \in Fingerprints :
          \A m \in Range(FindMatchingFiles(q)) : IsTrueMatch(m, q)
    /\ pc = "lock" => \A m \in Range(matches) : IsTrueMatch(m, newHash)

\* The lookup returned a match and rejected a candidate of another length.
C9_Witness ==
    /\ pc = "lock"
    /\ matches # <<>>
    /\ \E f \in AllHashes(newHash) :
          Len(hash[f]) # Len(newHash) /\ f \notin Range(matches)

\* C10: after an exception the worker is at its end with the error
\* recorded, running false, the connection closed and the lock released, and
\* from then on it changes neither the store nor the file system, starts no
\* pass and stays at its end.
C10_ExceptionEndsRun ==
    /\ [](error => (pc = "done" /\ ~running /\ closed /\ lock # "worker"
                     /\ files = db.files /\ hash = db.hash
                     /\ urlFile = db.urlFile))
    /\ [][error =>
             /\ error'
             /\ UNCHANGED <<pc, storeVars, lock, passVars, status, running,
                            closed, hashLog, passesAfterStop, finalPasses>>
             /\ \A f \in FileIds : exists[f] => exists'[f]
         ]_vars
    /\ [][(~error /\ error') =>
             /\ UNCHANGED <<db, fsVars, passVars, hashLog, passesAfterStop,
                            finalPasses>>
         ]_vars

\* An exception in the middle of a pass, with Files of the pass left and
\* the stop signal raised: no final pass was run.
C10_Witness ==
    /\ error
    /\ pc = "done"
    /\ idx < Len(unfinished)
    /\ stop
    /\ finalPasses = 0

\* C11: once the stop signal is raised the fairly scheduled worker reaches
\* its final state: not running, the session closed, and either the status
\* "Finished." or a recorded error.  The idle wait (pc = "wait") returns
\* whether or not the signal is set, so it never holds the worker back.
Terminated ==
    /\ pc = "done"
    /\ ~running
    /\ closed
    /\ (status.text = "Finished." \/ error)

C11_StopLeadsToTermination == stop ~> Terminated

\* The signal was raised during the idle wait and the run finished normally.
C11_Witness ==
    /\ Terminated
    /\ ~error
    /\ stopPc = "wait"

\* Files a and b as the scenario of C12 has them at the start of run: two
\* unfingerprinted downloaded Files with byte-identical stored images, each
\* with URL rows and none of them album-tagged, and no other File that is
\* fingerprinted or takes part in the pass.
TwoNewTwins(a, b) ==
    /\ a # b
    /\ \A f \in {a, b} :
          /\ start.hash[f] = None
          /\ start.downloaded[f]
          /\ start.exists[f]
          /\ \E u \in UrlIds : start.urlFile[u] = f
    /\ content[a] = content[b]
    /\ size[a] = size[b]
    /\ \A u \in UrlIds : start.urlFile[u] \in {a, b} => ~album[u]
    /\ \A c \in FileIds \ {a, b} :
          start.hash[c] = None /\ c \notin Range(unfinished)

\* One File of a and b is left in the committed store, with every URL row
\* the two had, its stored object and the only Hash row; the stored object
\* of the other is deleted.
MergedIntoOne(a, b) ==
    LET left == db.files \cap {a, b} IN
    /\ Cardinality(left) = 1
    /\ \A s \in left :
          /\ {u \in UrlIds : db.urlFile[u] = s}
                = {u \in UrlIds : start.urlFile[u] \in {a, b}}
          /\ db.hash[s] = content[s]
          /\ exists[s]
          /\ \A l \in {a, b} \ left : ~exists[l]
    /\ {f \in db.files : db.hash[f] # None} = left

\* The first pass of the loop is over and the stop signal was not raised.
FirstPassOver == passNo = 1 /\ pc = "ready" /\ ~stop

\* C12 as stated: after one pass over two new Files with byte-identical
\* images and no album tags one File record is left, holding both Files'
\* URL rows and the only Hash row, and the other's stored object is deleted.
C12_TwinsMergedInOnePass ==
    FirstPassOver =>
        \A a, b \in FileIds : TwoNewTwins(a, b) => MergedIntoOne(a, b)

\* C12 as amended: the same, when every URL row of the two Files is
\* processed.
C12_ProcessedTwinsMergedInOnePass ==
    FirstPassOver =>
        \A a, b \in FileIds :
            (/\ TwoNewTwins(a, b)
             /\ \A u \in UrlIds : start.urlFile[u] \in {a, b} => processed[u])
            => MergedIntoOne(a, b)

C12_Witness ==
    /\ FirstPassOver
    /\ \E a, b \in FileIds :
          /\ TwoNewTwins(a, b)
          /\ \A u \in UrlIds : start.urlFile[u] \in {a, b} => processed[u]
          /\ MergedIntoOne(a, b)
          /\ Cardinality({u \in UrlIds : start.urlFile[u] \in {a, b}}) > 2

\* C13: when a pass has ended (the worker is back in run, before the status
\* update of line 39 or line 42), the pruner has run and no File row without
\* URL rows is left, also when the pass found no unfingerprinted File.
C13_EveryPassEndsPruned ==
    (pc \in {"ready", "finish"} /\ passNo >= 1) =>
        /\ Orphans = {}
        /\ \A f \in db.files : \E u \in UrlIds : db.urlFile[u] = f

\* C14: the Hash row of a File and the URL rows its merge moves are
\* committed in one transaction.  The session differs from the committed
\* store only inside the unit of the one File being processed, under the
\* lock, and only in that File's Hash row and in URL rows moved from its
\* match set to the survivor; the commit of a unit writes the Hash row
\* together with the whole merge, URL rows change in no commit without the
\* Hash row, and after a commit nothing uncommitted is left.
C14_UnitIsOneTransaction ==
    /\ [](SessionStore # db =>
            /\ pc \in {"upgrade", "commit"}
            /\ lock = "worker"
            /\ files = db.files
            /\ hash[unfinished[idx]] = newHash
            /\ db.hash[unfinished[idx]] = None
            /\ \A g \in FileIds \ {unfinished[idx]} : hash[g] = db.hash[g]
            /\ \A u \in UrlIds :
                  urlFile[u] # db.urlFile[u] =>
                      db.urlFile[u] \in MatchSet /\ urlFile[u] = best)
    /\ [][(db' # db /\ pc # "pruning") =>
            /\ pc = "commit"
            /\ db.hash[unfinished[idx]] = None
            /\ db'.hash[unfinished[idx]] = newHash
            /\ Len(matches) > 0 =>
                  \A o \in MatchSet \ {best} :
                      \A u \in UrlIds : db'.urlFile[u] # o
            /\ db'.urlFile # db.urlFile => Len(matches) > 0
            /\ SessionStore' = db'
         ]_vars

\* Inside a merge of two losers: the first loser's URL rows are moved and
\* nothing of the unit is committed yet.
C14_Witness ==
    /\ pc = "upgrade"
    /\ k = 2
    /\ db.hash[unfinished[idx]] = None
    /\ urlFile # db.urlFile

\* The positions of the worker inside a `with self._lock` block (lines
\* 75-82 and 130-131).
InLockedUnit == pc \in {"assign", "upgrade", "commit", "pruning"}

\* C15: the worker holds the lock exactly while it is inside a per-file unit
\* or the pruner, so not in the idle wait, not after it has terminated and
\* not after a unit that raised; it takes the lock only when it is free, at
\* the start of a unit or of the pruner; and its session and the committed
\* store change only while it holds the lock.
C15_LockDiscipline ==
    /\ [](lock = "worker" <=> InLockedUnit)
    /\ [][(lock' = "worker" /\ lock # "worker") =>
            (lock = "free" /\ pc \in {"lock", "prune"})]_vars
    /\ [][(storeVars' # storeVars /\ lock # "other") => lock = "worker"]_vars

\* A unit raised after its Hash assignment: the assignment is rolled back
\* and the lock is free again.
C15_Witness ==
    /\ error
    /\ lock = "free"
    /\ Len(hashLog) > 0
    /\ hashLog[Len(hashLog)].file \in db.files
    /\ db.hash[hashLog[Len(hashLog)].file] = None

\* C20: next to a writer that changes the store only while it holds the
\* lock, every File of the match set is still a match when the worker, with
\* the lock, starts to apply the merge: it exists, has its Hash row and has
\* no album-tagged or unprocessed URL row.
C20_MatchesStillMatchAtMerge ==
    pc = "assign" =>
        \A m \in Range(matches) : m \in files /\ CheckHashMatch(m, newHash)

\* The value of the g-th group of 8 booleans (g from 0) with the first
\* boolean as the lowest bit, and with the first boolean as the highest bit.
Bit(b) == IF b THEN 1 ELSE 0

ByteLsbFirst(diff, g) ==
    Bit(diff[8 * g + 1]) + 2 * Bit(diff[8 * g + 2]) + 4 * Bit(diff[8 * g + 3])
    + 8 * Bit(diff[8 * g + 4]) + 16 * Bit(diff[8 * g + 5])
    + 32 * Bit(diff[8 * g + 6]) + 64 * Bit(diff[8 * g + 7])
    + 128 * Bit(diff[8 * g + 8])

ByteMsbFirst(diff, g) ==
    128 * Bit(diff[8 * g + 1]) + 64 * Bit(diff[8 * g + 2])
    + 32 * Bit(diff[8 * g + 3]) + 16 * Bit(diff[8 * g + 4])
    + 8 * Bit(diff[8 * g + 5]) + 4 * Bit(diff[8 * g + 6])
    + 2 * Bit(diff[8 * g + 7]) + Bit(diff[8 * g + 8])

\* The hash is DhashLen hexadecimal digits, two for each group of 8
\* booleans in input order.
TwoDigitsPerGroup ==
    /\ Len(difference) = HashSize * HashSize
    /\ Len(hex_string) = DhashLen
    /\ 4 * DhashLen = HashSize * HashSize
    /\ \A i \in 1..DhashLen : hex_string[i] \in 0..15

\* C16 as stated: the two digits of each group are the value of its 8
\* booleans with the first boolean as the highest bit.
C16_PackedMsbFirst ==
    hex_string # <<>> =>
        /\ TwoDigitsPerGroup
        /\ \A g \in 0..(HashSize - 1) :
              16 * hex_string[2 * g + 1] + hex_string[2 * g + 2]
                  = ByteMsbFirst(difference, g)

\* C16 as amended: the two digits of each group are the value of its 8
\* booleans with the first boolean as the lowest bit.
C16_PackedLsbFirst ==
    hex_string # <<>> =>
        /\ TwoDigitsPerGroup
        /\ \A g \in 0..(HashSize - 1) :
              16 * hex_string[2 * g + 1] + hex_string[2 * g + 2]
                  = ByteLsbFirst(difference, g)

\* A hash whose first group has only its first boolean set: digits 0, 1.
C16_Witness ==
    /\ hex_string # <<>>
    /\ difference[1]
    /\ \A i \in 2..8 : ~difference[i]
    /\ hex_string[1] = 0
    /\ hex_string[2] = 1

\* A sequence without repetition.
NoDuplicates(seq) == Cardinality(Range(seq)) = Len(seq)

\* C17: the matches looked up for a File do not hold that File, so matches
\* plus the File (line 78) holds each File once, and the survivor chosen
\* from it is none of the losers.
C17_FileNotInOwnMatchSet ==
    /\ pc \in {"lock", "assign", "upgrade", "commit"} =>
          /\ unfinished[idx] \notin Range(matches)
          /\ NoDuplicates(matches \o <<unfinished[idx]>>)
    /\ pc \in {"upgrade", "commit"} /\ best # 0 =>
          /\ best \notin Range(others)
          /\ NoDuplicates(<<best>> \o others)
          /\ Range(others) \cup {best} = MatchSet

\* A merge of a File with two matches: one survivor and two losers.
C17_Witness ==
    /\ pc = "upgrade"
    /\ Len(matches) = 2
    /\ Len(others) = 2
    /\ best \in Range(matches)

\* A File that lost a merge and is not pruned yet: it has its Hash row, no
\* URL row, and its stored object was deleted by _upgrade_file.
StaleLoser(f) ==
    /\ f \in files
    /\ hash[f] # None
    /\ Urls(f) = {}
    /\ f \in deletedObjs
    /\ ~exists[f]

\* C18: the matches looked up for a File (line 72) hold no File that lost a
\* merge earlier in the pass.
C18_LoserNeverMatched ==
    pc = "lock" => \A m \in Range(matches) : ~StaleLoser(m)

\* C19: after a unit that failed, no URL row of the committed store points
\* at a File whose stored object _upgrade_file deleted.
C19_NoReferenceToDeletedObject ==
    error => \A u \in UrlIds : db.urlFile[u] \notin deletedObjs

====
